---- MODULE Spec2Model ----
(***************************************************************************)
(* Model of the email-view serverless function                            *)
(* netlify/functions/getLatestEmail.ts: one invocation of `handler`, the   *)
(* IMAP session it drives, and the server / timers it reacts to.           *)
(*                                                                         *)
(* Time is the number of milliseconds elapsed since `startTime` (line 179).*)
(* Synchronous code takes no time; time passes only between events.        *)
(* A message buffer is identified by the uid it was fetched for.           *)
(***************************************************************************)
EXTENDS Integers, Sequences, FiniteSets, TLC

VARIABLES
    envUser,          \* process.env.IMAP_USER
    envPassword,      \* process.env.IMAP_PASSWORD
    envEmailCount,    \* process.env.EMAIL_COUNT
    envNodeEnv,       \* process.env.NODE_ENV
    mailbox,          \* what the server answers to SEARCH ALL (ascending uids)
    pc,               \* position of the handler
    now,              \* Date.now() - startTime, in ms
    imap,             \* the handler's local `imap`: "null" or "set"
    imapCreated,      \* number of `new Imap(...)` evaluated
    connectionTimeout,\* deadline of the connectToImap timer, or Off
    calls,            \* commands issued on the Imap object, in order
    maxEmails,        \* the handler's `maxEmails`
    results,          \* the handler's `results`, once the search has answered
    uidsToFetch,      \* the handler's `uidsToFetch`
    remainingUids,    \* fetchMultipleEmails: uids the for-loop has still to visit
    emailBuffers,     \* fetchMultipleEmails: buffers collected (by uid)
    fetchUid,         \* uid of the fetchEmail being awaited, or NoUid
    fetchTimeout,     \* deadline of that fetchEmail's timer, or Off
    emailBuffer,      \* its `emailBuffer.length`
    messageReceived,  \* its `messageReceived`
    chunks,           \* number of 'data' events it has seen
    returned,         \* fetchMultipleEmails has returned to the handler
    settled,          \* history: the fetchEmail promises settled so far, in order
    response,         \* what the handler returned, or NoResponse
    unparsed,         \* history: the buffers (by uid) whose parse threw
    fetches,          \* concurrent revision: the fetchEmail promises, by index
    promise,          \* fetchEmail alone: the state of its promise
    seen,             \* fetchEmail alone: history of the events delivered
    previous,         \* repeated invocations: the response of the one before
    http,             \* client: the HTTP response fetch() resolves with
    client            \* client: position and result of fetchEmails

vars == << envUser, envPassword, envEmailCount, envNodeEnv, mailbox, pc, now, imap,
           imapCreated, connectionTimeout, calls, maxEmails, results, uidsToFetch,
           remainingUids, emailBuffers, fetchUid, fetchTimeout, emailBuffer,
           messageReceived, chunks, returned, settled, response,
           unparsed, fetches, promise, seen, previous, http, client >>

----------------------------------------------------------------------------
(* Bounds of the model *)

MaxMailbox == 5        \* largest mailbox of the full-environment specification
LargeMailbox == 51     \* largest mailbox of the answering-server specification
FirstUid == 10         \* uid of the oldest message of a mailbox
MaxCountInput == 3     \* EMAIL_COUNT takes the integers -1..MaxCountInput (and around 50)
MaxChunks == 2         \* 'data' events per message
MaxRepeatMailbox == 2  \* largest mailbox of the repeated invocations' specification
MaxInvocations == 2    \* calls of fetchEmails, or invocations of the handler, in one behaviour
MaxConcurrent == 2     \* largest mailbox of the concurrent revision's specification
TickMs == 1000         \* granularity of the clock
MaxNow == 14000        \* the clock stops here

(* Program constants *)

ConnectionTimeoutMs == 8000     \* setTimeout(..., 8000) in connectToImap
ConnTimeoutMs == 5000           \* connTimeout: 5000 in the Imap configuration
AuthTimeoutMs == 3000           \* authTimeout: 3000 in the Imap configuration
OuterDeadlineMs == 10000        \* the platform's limit: 8 s "leaving 2 seconds for processing"
FetchTimeoutMs == 5000          \* setTimeout(..., 5000) in fetchEmail
MaxTime == 8000                 \* fetchMultipleEmails(imap, uidsToFetch, startTime, 8000)
MaxEmailBytes == 10485760       \* 10 * 1024 * 1024
EmailCap == 1                   \* Math.min(Math.max(1, emailCount), 1)
ConcurrentCap == 50             \* concurrent revision: Math.min(Math.max(1, emailCount), 50)
DocumentedMax == 50             \* README: EMAIL_COUNT ... max: 50

\* A JavaScript number is an integer or NaN.
Num(n) == [nan |-> FALSE, v |-> n]
NaN == [nan |-> TRUE, v |-> 0]

Off == 0 - 1           \* a timer that is not armed
NoUid == 0 - 1         \* no fetchEmail is being awaited

MsgNotConfigured == "IMAP credentials not configured. Please set IMAP_USER and IMAP_PASSWORD environment variables."
MsgConnectionTimeout == "IMAP connection timeout"
MsgNoEmails == "No emails found in inbox"
MsgFetchFailed == "Failed to fetch any emails. This may be due to timeout or connection issues."
MsgServerError == "server error"
MsgConnTimedOut == "Timed out while connecting to server"
MsgAuthTimedOut == "Timed out while authenticating with server"
MsgParseError == "parse error"

----------------------------------------------------------------------------
(* JavaScript helpers *)

\* Array.prototype.reverse
RECURSIVE Reverse(_)
Reverse(s) == IF s = << >> THEN << >> ELSE Append(Reverse(Tail(s)), Head(s))

\* Math.max(a, b) and Math.min(a, b): NaN if either argument is NaN
MathMax(a, b) == IF a.nan \/ b.nan THEN NaN ELSE IF a.v >= b.v THEN a ELSE b
MathMin(a, b) == IF a.nan \/ b.nan THEN NaN ELSE IF a.v <= b.v THEN a ELSE b

\* unary minus
Negate(a) == IF a.nan THEN NaN ELSE Num(0 - a.v)

\* ToIntegerOrInfinity: NaN becomes 0
ToInteger(a) == IF a.nan THEN 0 ELSE a.v

\* Array.prototype.slice(start) with one argument
Slice(s, start) ==
    LET rel == ToInteger(start)
        k == IF rel < 0 THEN (IF Len(s) + rel > 0 THEN Len(s) + rel ELSE 0)
                        ELSE (IF rel < Len(s) THEN rel ELSE Len(s))
    IN SubSeq(s, k + 1, Len(s))

\* An EMAIL_COUNT value is unset, or a string: empty, a decimal integer, or text
\* that does not start with a number.
IntString(n) == [kind |-> "int", n |-> n]
EmptyString == [kind |-> "empty", n |-> 0]
TextString == [kind |-> "text", n |-> 0]
UnsetValue == [kind |-> "unset", n |-> 0]

\* process.env.X || dflt : undefined and '' are falsy
OrDefault(v, dflt) == IF v.kind \in {"unset", "empty"} THEN dflt ELSE v

\* parseInt(string, 10)
ParseInt(v) == IF v.kind = "int" THEN Num(v.n) ELSE NaN

----------------------------------------------------------------------------
(* The environment: configuration and mailbox *)

\* the values an environment variable holding a name or a secret may take
CredentialInputs == {UnsetValue, EmptyString, TextString}

\* the values NODE_ENV may take
NodeEnvInputs == {"undefined", "development", "production"}

\* the values EMAIL_COUNT may take
EmailCountInputs ==
    {UnsetValue, EmptyString, TextString}
    \cup {IntString(n) : n \in (0 - 1)..MaxCountInput}
    \cup {IntString(DocumentedMax), IntString(DocumentedMax + 1)}

\* SEARCH ALL answers the uids of the mailbox in ascending order
Mailbox(m) == [i \in 1..m |-> FirstUid + i - 1]

----------------------------------------------------------------------------
(* The handler's pure computations *)

\* a guard that forgets the password
CredentialsMissingUserOnly(user, password) ==
    OrDefault(user, EmptyString).kind = "empty"

\* getImapConfig + the guard of connectToImap: !config.user || !config.password
CredentialsMissing(user, password) ==
    \/ OrDefault(user, EmptyString).kind = "empty"
    \/ OrDefault(password, EmptyString).kind = "empty"

\* const emailCount = parseInt(process.env.EMAIL_COUNT || '1', 10)
EmailCountOf(v) == ParseInt(OrDefault(v, IntString(1)))

\* const maxEmails = Math.min(Math.max(1, emailCount), 1)
MaxEmailsOf(emailCount) == MathMin(MathMax(Num(1), emailCount), Num(EmailCap))

\* const actualCount = Math.min(maxEmails, results.length)
\* const uidsToFetch = results.slice(-actualCount)
SelectUids(found, max) == Slice(found, Negate(MathMin(max, Num(Len(found)))))

\* uids.slice(0, -1).reverse()
RemainingOf(uids) == Reverse(SubSeq(uids, 1, Len(uids) - 1))

\* the filter of the parsed list: entries whose parse returned null are dropped
RECURSIVE DropNull(_, _, _)
DropNull(bufs, bad, i) ==
    IF i > Len(bufs) THEN << >>
    ELSE IF i \in bad THEN DropNull(bufs, bad, i + 1)
    ELSE << bufs[i] >> \o DropNull(bufs, bad, i + 1)

\* the bodies the handler returns
EmptyInbox == [status |-> 200, fields |-> {"emails", "message"}, emails |-> << >>,
               message |-> MsgNoEmails, count |-> 0]
Success(emails) == [status |-> 200, fields |-> {"emails", "count"}, emails |-> emails,
                    message |-> "", count |-> Len(emails)]
FetchFailure == [status |-> 500, fields |-> {"message"}, emails |-> << >>,
                 message |-> MsgFetchFailed, count |-> 0]
\* an error body that carries the raw error in every environment
ErrorResponseAlwaysDetail(msg) ==
    [status |-> 500, fields |-> {"message", "error"},
     emails |-> << >>, message |-> msg, count |-> 0]

\* JSON.stringify drops the `error` key when its value is undefined
ErrorResponse(msg) ==
    [status |-> 500,
     fields |-> IF envNodeEnv = "development" THEN {"message", "error"} ELSE {"message"},
     emails |-> << >>, message |-> msg, count |-> 0]
NoResponse == [status |-> 0, fields |-> {}, emails |-> << >>, message |-> "", count |-> 0]

Connect == [op |-> "connect", uid |-> NoUid]
OpenBox == [op |-> "openBox", uid |-> NoUid]
Search == [op |-> "search", uid |-> NoUid]
Fetch(uid) == [op |-> "fetch", uid |-> uid]
End == [op |-> "end", uid |-> NoUid]

----------------------------------------------------------------------------
envVars == << envUser, envPassword, envEmailCount, envNodeEnv, mailbox >>
\* what belongs to the other components: the concurrent revision, fetchEmail
\* taken alone, the invocation before, the browser client
others == << fetches, promise, seen, previous, http, client >>
elsewhere == << unparsed, fetches, promise, seen, previous, http, client >>
fetchVars == << fetchUid, fetchTimeout, emailBuffer, messageReceived, chunks >>
loopVars == << uidsToFetch, remainingUids, emailBuffers, returned >>
setupVars == << imapCreated, connectionTimeout, maxEmails >>

NoResults == [done |-> FALSE, uids |-> << >>]
Results(uids) == [done |-> TRUE, uids |-> uids]

NoFetch ==
    /\ fetchUid' = NoUid
    /\ fetchTimeout' = Off
    /\ emailBuffer' = 0
    /\ messageReceived' = FALSE
    /\ chunks' = 0

\* if (imap) imap.end()
EndIfOpen(handle, log) == IF handle = "set" THEN Append(log, End) ELSE log

\* a catch block that swallows the error and answers like an empty inbox
CatchSwallows(msg, handle) ==
    /\ calls' = EndIfOpen(handle, calls)
    /\ response' = EmptyInbox
    /\ pc' = "done"

\* the catch block of the handler: close the session if there is one, answer 500
Catch(msg, handle) ==
    /\ calls' = EndIfOpen(handle, calls)
    /\ response' = ErrorResponse(msg)
    /\ pc' = "done"

----------------------------------------------------------------------------
(* Initial states *)

InitHandler ==
    /\ pc = "start"
    /\ now = 0
    /\ imap = "null"
    /\ imapCreated = 0
    /\ connectionTimeout = Off
    /\ calls = << >>
    /\ maxEmails = Num(0)
    /\ results = NoResults
    /\ uidsToFetch = << >>
    /\ remainingUids = << >>
    /\ emailBuffers = << >>
    /\ fetchUid = NoUid
    /\ fetchTimeout = Off
    /\ emailBuffer = 0
    /\ messageReceived = FALSE
    /\ chunks = 0
    /\ returned = FALSE
    /\ settled = << >>
    /\ response = NoResponse
    /\ unparsed = {}

NoPromise == [state |-> "none", value |-> 0, reason |-> ""]
NoPrevious == [present |-> FALSE, n |-> 0, response |-> NoResponse, nominal |-> FALSE,
               elapsed |-> 0]
NoHttp == [status |-> 0, contentType |-> << >>, body |-> "none"]
NoClient == [pc |-> "idle", started |-> 0, gets |-> 0, reads |-> 0, outcome |-> "none"]

\* the other components are not running
InitElsewhere ==
    /\ fetches = << >>
    /\ promise = NoPromise
    /\ seen = {}
    /\ previous = NoPrevious
    /\ http = NoHttp
    /\ client = NoClient

Init ==
    /\ envUser \in CredentialInputs
    /\ envPassword \in CredentialInputs
    /\ envEmailCount \in EmailCountInputs
    /\ envNodeEnv \in NodeEnvInputs
    /\ mailbox \in {Mailbox(m) : m \in 0..MaxMailbox}
    /\ InitHandler
    /\ InitElsewhere

----------------------------------------------------------------------------
(* fetchEmail and fetchMultipleEmails *)

\* fetchEmail, up to the point where it waits for events: arm the timer and
\* issue the FETCH command
StartFetch(uid, where) ==
    /\ fetchUid' = uid
    /\ fetchTimeout' = now + FetchTimeoutMs
    /\ emailBuffer' = 0
    /\ messageReceived' = FALSE
    /\ chunks' = 0
    /\ calls' = Append(calls, Fetch(uid))
    /\ pc' = where
    /\ UNCHANGED << response, returned >>

\* a handler without the emailBuffers.length === 0 branch
ReturnAlwaysParses(bufs) ==
    /\ returned' = TRUE
    /\ emailBuffers' = bufs
    /\ NoFetch
    /\ pc' = "parse"
    /\ UNCHANGED << calls, response >>

\* fetchMultipleEmails returns bufs; the handler goes on from its await:
\* no buffer at all is answered with 500, otherwise the buffers are parsed
Return(bufs) ==
    /\ returned' = TRUE
    /\ emailBuffers' = bufs
    /\ NoFetch
    /\ IF Len(bufs) = 0
       THEN /\ calls' = EndIfOpen(imap, calls)
            /\ response' = FetchFailure
            /\ pc' = "done"
       ELSE /\ pc' = "parse"
            /\ UNCHANGED << calls, response >>

\* a for-loop without the elapsed > maxTime check
LoopIgnoresBudget(bufs, rem) ==
    /\ remainingUids' = rem
    /\ IF Len(rem) = 0
       THEN Return(bufs)
       ELSE /\ emailBuffers' = bufs
            /\ StartFetch(Head(rem), "fetchNext")

\* one visit of the for-loop over remainingUids, rem being what is left to visit
Loop(bufs, rem) ==
    /\ remainingUids' = rem
    /\ IF Len(rem) = 0 \/ now > MaxTime
       THEN Return(bufs)
       ELSE /\ emailBuffers' = bufs
            /\ StartFetch(Head(rem), "fetchNext")

\* fetchMultipleEmails from its first line to its first await
FetchMultipleEmails(uids) ==
    /\ uidsToFetch' = uids
    /\ remainingUids' = << >>
    /\ IF Len(uids) = 0 \/ now > MaxTime
       THEN Return(<< >>)
       ELSE /\ emailBuffers' = << >>
            /\ StartFetch(uids[Len(uids)], "fetchLatest")

\* the handlers of fetchEmail that settle its promise
ByMessageEnd == "msg end"
ByError == "fetch error"
ByEnd == "fetch end"
ByTimeout == "fetchTimeout"
BySizeCap == "size cap"

\* the awaited fetchEmail resolved: push the buffer and go on
Resolved ==
    /\ settled' = Append(settled, [uid |-> fetchUid, ok |-> TRUE, by |-> ByMessageEnd])
    /\ IF pc = "fetchLatest"
       THEN IF Len(uidsToFetch) > 1 /\ now < MaxTime
            THEN Loop(<< fetchUid >>, RemainingOf(uidsToFetch))
            ELSE remainingUids' = << >> /\ Return(<< fetchUid >>)
       ELSE Loop(Append(emailBuffers, fetchUid), Tail(remainingUids))

\* the awaited fetchEmail rejected: the latest one ends the function with
\* what it has (nothing), any other one is skipped
Rejected(by) ==
    /\ settled' = Append(settled, [uid |-> fetchUid, ok |-> FALSE, by |-> by])
    /\ IF pc = "fetchLatest"
       THEN remainingUids' = << >> /\ Return(emailBuffers)
       ELSE Loop(emailBuffers, Tail(remainingUids))

Fetching == pc \in {"fetchLatest", "fetchNext"}

\* stream.on('data'): append the chunk, reject once the buffer exceeds 10 MB
Data(size) ==
    /\ Fetching
    /\ chunks < MaxChunks
    /\ IF emailBuffer + size > MaxEmailBytes
       THEN Rejected(BySizeCap)
       ELSE /\ emailBuffer' = emailBuffer + size
            /\ chunks' = chunks + 1
            /\ UNCHANGED << pc, calls, response, remainingUids, emailBuffers,
                            returned, settled, fetchUid, fetchTimeout, messageReceived >>
    /\ UNCHANGED << envVars, elsewhere, now, imap, setupVars, results, uidsToFetch >>

\* msg.once('end'): resolve with the bytes received
MessageEnd ==
    /\ Fetching
    /\ Resolved
    /\ UNCHANGED << envVars, elsewhere, now, imap, setupVars, results, uidsToFetch >>

\* fetch.once('error')
FetchError ==
    /\ Fetching
    /\ Rejected(ByError)
    /\ UNCHANGED << envVars, elsewhere, now, imap, setupVars, results, uidsToFetch >>

\* fetch.once('end'): reject if no message or no byte was received
FetchEnd ==
    /\ Fetching
    /\ IF ~messageReceived \/ emailBuffer = 0
       THEN Rejected(ByEnd)
       ELSE UNCHANGED << pc, calls, response, loopVars, settled, fetchVars >>
    /\ UNCHANGED << envVars, elsewhere, now, imap, setupVars, results, uidsToFetch >>

\* the 5 s timer of fetchEmail fires
FetchTimeout ==
    /\ Fetching
    /\ fetchTimeout # Off
    /\ now >= fetchTimeout
    /\ Rejected(ByTimeout)
    /\ UNCHANGED << envVars, elsewhere, now, imap, setupVars, results, uidsToFetch >>

----------------------------------------------------------------------------
(* connectToImap and the handler *)

\* the handler from its first line to its first await, connectToImap included:
\* without credentials the promise rejects before an Imap object exists
Start ==
    /\ pc = "start"
    /\ maxEmails' = MaxEmailsOf(EmailCountOf(envEmailCount))
    /\ IF CredentialsMissing(envUser, envPassword)
       THEN /\ Catch(MsgNotConfigured, imap)
            /\ UNCHANGED << imapCreated, connectionTimeout >>
       ELSE /\ imapCreated' = imapCreated + 1
            /\ connectionTimeout' = now + ConnectionTimeoutMs
            /\ calls' = Append(calls, Connect)
            /\ pc' = "connecting"
            /\ UNCHANGED response
    /\ UNCHANGED << envVars, elsewhere, now, imap, results, loopVars, settled, fetchVars >>

\* imap.once('ready'): the handler gets the session and opens the inbox
\* a handler that searches without opening the inbox
ReadySkipsOpenBox ==
    /\ pc = "connecting"
    /\ connectionTimeout' = Off
    /\ imap' = "set"
    /\ calls' = Append(calls, Search)
    /\ pc' = "search"
    /\ UNCHANGED << envVars, elsewhere, now, imapCreated, maxEmails, results, loopVars, settled,
                    fetchVars, response >>

Ready ==
    /\ pc = "connecting"
    /\ connectionTimeout' = Off
    /\ imap' = "set"
    /\ calls' = Append(calls, OpenBox)
    /\ pc' = "openBox"
    /\ UNCHANGED << envVars, elsewhere, now, imapCreated, maxEmails, results, loopVars, settled,
                    fetchVars, response >>

\* the errors the Imap object can emit while connecting, t ms after connect():
\* a server or socket error at any time, its own connection and authentication
\* timeouts once their configured delays have passed
ConnectErrorsAt(t) ==
    {MsgServerError}
        \cup (IF t >= AuthTimeoutMs THEN {MsgAuthTimedOut} ELSE {})
        \cup (IF t >= ConnTimeoutMs THEN {MsgConnTimedOut} ELSE {})

\* imap.once('error') while connecting: the promise rejects, the handler's
\* `imap` is still null when its catch block runs
ConnectError ==
    /\ pc = "connecting"
    /\ connectionTimeout' = Off
    /\ \E msg \in ConnectErrorsAt(now) : Catch(msg, imap)
    /\ UNCHANGED << envVars, elsewhere, now, imap, imapCreated, maxEmails, results, loopVars,
                    settled, fetchVars >>

\* the 8 s timer of connectToImap fires: imap.end(), then reject
ConnectTimeout ==
    /\ pc = "connecting"
    /\ connectionTimeout # Off
    /\ now >= connectionTimeout
    /\ connectionTimeout' = Off
    /\ calls' = EndIfOpen(imap, Append(calls, End))
    /\ response' = ErrorResponse(MsgConnectionTimeout)
    /\ pc' = "done"
    /\ UNCHANGED << envVars, elsewhere, now, imap, imapCreated, maxEmails, results, loopVars,
                    settled, fetchVars >>

\* openBox calls back without error: the handler searches
OpenBoxOk ==
    /\ pc = "openBox"
    /\ calls' = Append(calls, Search)
    /\ pc' = "search"
    /\ UNCHANGED << envVars, elsewhere, now, imap, setupVars, results, loopVars, settled,
                    fetchVars, response >>

\* openBox calls back with an error
OpenBoxError ==
    /\ pc = "openBox"
    /\ Catch(MsgServerError, imap)
    /\ UNCHANGED << envVars, elsewhere, now, imap, setupVars, results, loopVars, settled,
                    fetchVars >>

\* a handler without the results.length === 0 branch
SearchOkNoShortCircuit ==
    /\ pc = "search"
    /\ results' = Results(mailbox)
    /\ FetchMultipleEmails(SelectUids(results'.uids, maxEmails))
    /\ UNCHANGED << envVars, elsewhere, now, imap, setupVars, settled >>

\* search calls back with the uids: an empty inbox is answered at once,
\* otherwise the newest uids are selected and fetchMultipleEmails starts
SearchOk ==
    /\ pc = "search"
    /\ results' = Results(mailbox)
    /\ IF Len(results'.uids) = 0
       THEN /\ calls' = EndIfOpen(imap, calls)
            /\ response' = EmptyInbox
            /\ pc' = "done"
            /\ UNCHANGED << loopVars, fetchVars >>
       ELSE FetchMultipleEmails(SelectUids(results'.uids, maxEmails))
    /\ UNCHANGED << envVars, elsewhere, now, imap, setupVars, settled >>

\* search calls back with an error
SearchError ==
    /\ pc = "search"
    /\ Catch(MsgServerError, imap)
    /\ UNCHANGED << envVars, elsewhere, now, imap, setupVars, results, loopVars, settled,
                    fetchVars >>

\* a handler whose parse has no try/catch: a throw rejects Promise.all and
\* reaches the catch block of the handler
ParseRejects(bad) ==
    /\ pc = "parse"
    /\ unparsed' = {emailBuffers[i] : i \in bad}
    /\ IF bad # {}
       THEN Catch(MsgParseError, imap)
       ELSE /\ calls' = EndIfOpen(imap, calls)
            /\ response' = Success(Reverse(emailBuffers))
            /\ pc' = "done"
    /\ UNCHANGED << envVars, others, now, imap, setupVars, results, loopVars, settled,
                    fetchVars >>

\* Promise.all over parseEmail settles, the parse of the buffers at the
\* positions in bad having thrown: drop the nulls, reverse, close, answer 200
Parse(bad) ==
    /\ pc = "parse"
    /\ unparsed' = {emailBuffers[i] : i \in bad}
    /\ calls' = EndIfOpen(imap, calls)
    /\ response' = Success(Reverse(DropNull(emailBuffers, bad, 1)))
    /\ pc' = "done"
    /\ UNCHANGED << envVars, others, now, imap, setupVars, results, loopVars, settled,
                    fetchVars >>

\* a timer that is armed and due
TimerDue ==
    \/ connectionTimeout # Off /\ now >= connectionTimeout
    \/ fetchTimeout # Off /\ now >= fetchTimeout

\* time passes while the handler waits; a due timer fires before more time passes
Tick ==
    /\ pc \notin {"start", "done"}
    /\ ~TimerDue
    /\ now + TickMs <= MaxNow
    /\ now' = now + TickMs
    /\ UNCHANGED << envVars, elsewhere, pc, imap, setupVars, calls, results, loopVars, settled,
                    fetchVars, response >>

----------------------------------------------------------------------------
(* The specification: any server behaviour, any timing *)

ChunkSizes == {1, MaxEmailBytes}

Next ==
    \/ Start
    \/ Ready
    \/ ConnectError
    \/ ConnectTimeout
    \/ OpenBoxOk
    \/ OpenBoxError
    \/ SearchOk
    \/ SearchError
    \/ \E size \in ChunkSizes : Data(size)
    \/ MessageEnd
    \/ FetchError
    \/ FetchEnd
    \/ FetchTimeout
    \/ \E bad \in SUBSET (1..Len(emailBuffers)) : Parse(bad)
    \/ Tick

Spec == Init /\ [][Next]_vars

\* The local code always runs and the clock always advances; the server may
\* stay silent for ever, so no fairness is assumed of its answers.
FairSpec ==
    /\ Spec
    /\ WF_vars(Start)
    /\ WF_vars(ConnectTimeout)
    /\ WF_vars(FetchTimeout)
    /\ WF_vars(\E bad \in SUBSET (1..Len(emailBuffers)) : Parse(bad))
    /\ WF_vars(Tick)

----------------------------------------------------------------------------
(* A second specification: valid credentials, a server that answers every     *)
(* command at once and without error, a parser that never throws, and         *)
(* mailboxes of up to LargeMailbox messages.                                  *)

InitNominal ==
    /\ envUser = TextString
    /\ envPassword = TextString
    /\ envEmailCount \in EmailCountInputs
    /\ envNodeEnv \in NodeEnvInputs
    /\ mailbox \in {Mailbox(m) : m \in 0..LargeMailbox}
    /\ InitHandler
    /\ InitElsewhere

NextNominal ==
    \/ Start
    \/ Ready
    \/ OpenBoxOk
    \/ SearchOk
    \/ Data(1)
    \/ MessageEnd
    \/ Parse({})

SpecNominal == InitNominal /\ [][NextNominal]_vars

----------------------------------------------------------------------------
(* Properties *)

Range(s) == {s[i] : i \in 1..Len(s)}
Min(a, b) == IF a <= b THEN a ELSE b
Responded == pc = "done"
SearchAnswered == results.done
FetchCalls == {c \in Range(calls) : c.op = "fetch"}

\* C1: the emails of a 200 response are strictly newest-first, i.e. their
\* identifiers are strictly descending.
C1_NewestFirst ==
    (Responded /\ response.status = 200) =>
        \A i \in 1..(Len(response.emails) - 1) :
            response.emails[i] > response.emails[i + 1]

\* C2: for EMAIL_COUNT = c with c in 1..50 and a non-empty mailbox of m
\* messages, the identifiers selected are the last min(c, m) of the search result.
C2_SelectsLastMin ==
    (SearchAnswered /\ Len(mailbox) > 0 /\ envEmailCount.kind = "int"
       /\ envEmailCount.n \in 1..DocumentedMax) =>
        LET m == Len(mailbox)
            k == Min(envEmailCount.n, m)
        IN uidsToFetch = SubSeq(mailbox, m - k + 1, m)

\* C3: the requested count is an integer in 1..50; values below 1 give 1, values
\* above 50 give 50, a missing or non-numeric EMAIL_COUNT gives 1.
C3_RequestedCountInRange ==
    pc # "start" =>
        /\ ~maxEmails.nan
        /\ maxEmails.v \in 1..DocumentedMax
        /\ (envEmailCount.kind = "int" /\ envEmailCount.n < 1) => maxEmails.v = 1
        /\ (envEmailCount.kind = "int" /\ envEmailCount.n > DocumentedMax)
               => maxEmails.v = DocumentedMax
        /\ envEmailCount.kind \in {"unset", "empty", "text"} => maxEmails.v = 1

\* C4: the number of emails in the response is at most the number of identifiers
\* targeted and at most the configured maximum of 50.
C4_CountBounded ==
    Responded =>
        /\ Len(response.emails) <= Len(uidsToFetch)
        /\ Len(response.emails) <= DocumentedMax

\* C5: when the search answers with no identifier, the handler answers 200 with
\* an empty emails list and a non-empty message, and no fetch was issued.
C5_EmptyInboxIsSuccess ==
    (SearchAnswered /\ Len(results.uids) = 0) =>
        /\ Responded
        /\ response.status = 200
        /\ "emails" \in response.fields /\ response.emails = << >>
        /\ "message" \in response.fields /\ response.message # ""
        /\ FetchCalls = {}

C5_Witness == SearchAnswered /\ Len(results.uids) = 0 /\ Responded

\* C6: when the mailbox is not empty and no fetch succeeded (each one attempted
\* failed, or none was attempted), the response is a 500 with a message, never a
\* 200 with an empty emails list.
C6_NoFetchSucceededIsError ==
    (Responded /\ SearchAnswered /\ Len(results.uids) > 0
       /\ \A i \in 1..Len(settled) : ~settled[i].ok) =>
        /\ response.status = 500
        /\ response.fields = {"message"} /\ response.message # ""

C6_Witness ==
    /\ Responded /\ SearchAnswered /\ Len(results.uids) > 0
    /\ Len(settled) > 0
    /\ \A i \in 1..Len(settled) : ~settled[i].ok

\* C7: a failed fetch of one identifier never aborts the others: once
\* fetchMultipleEmails has returned with the time budget not exceeded, every
\* targeted identifier was attempted and every resolved buffer is returned.
C7_FailureNeverAborts ==
    (returned /\ now <= MaxTime) =>
        /\ \A u \in Range(uidsToFetch) : Fetch(u) \in Range(calls)
        /\ \A i \in 1..Len(settled) :
               settled[i].ok => settled[i].uid \in Range(emailBuffers)

\* C8: whenever the handler has returned and connect() was called on an Imap
\* object, imap.end() was called on it.
C8_AlwaysClosed ==
    (Responded /\ Connect \in Range(calls)) => End \in Range(calls)

\* C9: with IMAP_USER or IMAP_PASSWORD empty or unset the handler answers 500
\* with the "not configured" message; no Imap object is built, connect() is not called.
C9_NotConfigured ==
    (pc # "start" /\ (envUser.kind \in {"unset", "empty"}
                        \/ envPassword.kind \in {"unset", "empty"})) =>
        /\ Responded
        /\ response.status = 500
        /\ response.message = MsgNotConfigured
        /\ imapCreated = 0
        /\ calls = << >>

C9_Witness ==
    /\ Responded
    /\ envUser.kind = "text" /\ envPassword.kind \in {"unset", "empty"}

\* C10: the handler never blocks indefinitely: whenever it waits for the server
\* (connect, select-mailbox, search, fetch) a timeout of its own is armed, so
\* that every invocation eventually returns a response whatever the server does.
WaitingForServer == pc \in {"connecting", "openBox", "search", "fetchLatest", "fetchNext"}

C10_EveryWaitBounded ==
    WaitingForServer => (connectionTimeout # Off \/ fetchTimeout # Off)

\* the same claim as a liveness property, to be read under FairSpec
C10_EventuallyResponds == <>Responded


----------------------------------------------------------------------------
(* The concurrent revision (unnamed/part_001): connectToImap, openInbox and     *)
(* searchLatestEmails are the same code; fetchEmail has no timer and no size    *)
(* cap; fetchMultipleEmails issues every fetch at once; the handler parses      *)
(* without a try/catch and does not test for an empty list of buffers.          *)

\* const maxEmails = Math.min(Math.max(1, emailCount), 50)
MaxEmailsConcurrent(emailCount) ==
    MathMin(MathMax(Num(1), emailCount), Num(ConcurrentCap))

Pending == [st |-> "pending", len |-> 0, received |-> FALSE]

\* uids.map(uid => fetchEmail(imap, uid)...): one FETCH command per uid
RECURSIVE FetchAll(_)
FetchAll(uids) ==
    IF uids = << >> THEN << >> ELSE << Fetch(Head(uids)) >> \o FetchAll(Tail(uids))

\* what Promise.all resolves with: one entry per promise, in the order of the
\* promises given
AllResults(fs, uids) ==
    [i \in 1..Len(uids) |->
        [index |-> i, buffer |-> uids[i], success |-> fs[i].st = "resolved"]]

\* Array.prototype.sort((a, b) => a.index - b.index), as an insertion sort
RECURSIVE InsertByIndex(_, _)
InsertByIndex(x, sorted) ==
    IF sorted = << >> THEN << x >>
    ELSE IF x.index < Head(sorted).index THEN << x >> \o sorted
    ELSE << Head(sorted) >> \o InsertByIndex(x, Tail(sorted))

RECURSIVE SortByIndex(_)
SortByIndex(rs) ==
    IF rs = << >> THEN << >>
    ELSE InsertByIndex(rs[Len(rs)], SortByIndex(SubSeq(rs, 1, Len(rs) - 1)))

\* .filter(result => result.success && result.buffer).map(result => result.buffer)
RECURSIVE SuccessfulBuffers(_)
SuccessfulBuffers(rs) ==
    IF rs = << >> THEN << >>
    ELSE IF Head(rs).success THEN << Head(rs).buffer >> \o SuccessfulBuffers(Tail(rs))
    ELSE SuccessfulBuffers(Tail(rs))

\* the uids of the fetches that resolved, in the order they settled
RECURSIVE ResolvedSeq(_)
ResolvedSeq(hist) ==
    IF hist = << >> THEN << >>
    ELSE IF Head(hist).ok THEN << Head(hist).uid >> \o ResolvedSeq(Tail(hist))
    ELSE ResolvedSeq(Tail(hist))

\* a collection that pushes each buffer as its fetch completes
GatherAsCompleted(fs, uids) == ResolvedSeq(settled')

\* the value fetchMultipleEmails returns once every promise has settled
Gather(fs, uids) == SuccessfulBuffers(SortByIndex(AllResults(fs, uids)))

AllSettled(fs) == \A i \in 1..Len(fs) : fs[i].st # "pending"

\* the handler up to its first await, with the cap of this revision
StartConcurrent ==
    /\ pc = "start"
    /\ maxEmails' = MaxEmailsConcurrent(EmailCountOf(envEmailCount))
    /\ IF CredentialsMissing(envUser, envPassword)
       THEN /\ Catch(MsgNotConfigured, imap)
            /\ UNCHANGED << imapCreated, connectionTimeout >>
       ELSE /\ imapCreated' = imapCreated + 1
            /\ connectionTimeout' = now + ConnectionTimeoutMs
            /\ calls' = Append(calls, Connect)
            /\ pc' = "connecting"
            /\ UNCHANGED response
    /\ UNCHANGED << envVars, elsewhere, now, imap, results, loopVars, settled, fetchVars >>

\* search calls back with the uids: an empty inbox is answered at once,
\* otherwise every selected uid is fetched, all at once
SearchOkConcurrent ==
    /\ pc = "search"
    /\ results' = Results(mailbox)
    /\ IF Len(results'.uids) = 0
       THEN /\ calls' = EndIfOpen(imap, calls)
            /\ response' = EmptyInbox
            /\ pc' = "done"
            /\ UNCHANGED << uidsToFetch, fetches >>
       ELSE /\ uidsToFetch' = SelectUids(results'.uids, maxEmails)
            /\ calls' = calls \o FetchAll(uidsToFetch')
            /\ fetches' = [i \in 1..Len(uidsToFetch') |-> Pending]
            /\ pc' = "fetchAll"
            /\ UNCHANGED response
    /\ UNCHANGED << envVars, unparsed, promise, seen, previous, http, client, now, imap, setupVars,
                    remainingUids, emailBuffers, returned, settled, fetchVars >>

\* promise i settles; when it was the last one pending, Promise.all resolves,
\* fetchMultipleEmails returns and the handler starts parsing
Settle(i, ok) ==
    /\ fetches' = [fetches EXCEPT ![i].st = IF ok THEN "resolved" ELSE "rejected",
                                  ![i].received = ok]
    /\ settled' = Append(settled, [uid |-> uidsToFetch[i], ok |-> ok])
    /\ IF AllSettled(fetches')
       THEN /\ emailBuffers' = Gather(fetches', uidsToFetch)
            /\ returned' = TRUE
            /\ pc' = "parse"
       ELSE UNCHANGED << emailBuffers, returned, pc >>
    /\ UNCHANGED << envVars, unparsed, promise, seen, previous, http, client, now, imap, setupVars,
                    calls, results, uidsToFetch, remainingUids, fetchVars, response >>

FetchingConcurrent(i) ==
    pc = "fetchAll" /\ i \in 1..Len(fetches) /\ fetches[i].st = "pending"

\* stream.on('data') of fetch i
DataConcurrent(i, size) ==
    /\ FetchingConcurrent(i)
    /\ fetches[i].len < MaxChunks
    /\ fetches' = [fetches EXCEPT ![i].len = @ + size]
    /\ UNCHANGED << envVars, unparsed, promise, seen, previous, http, client, pc, now, imap,
                    setupVars, calls, results, loopVars, settled, fetchVars, response >>

\* msg.once('end') of fetch i
MessageEndConcurrent(i) == FetchingConcurrent(i) /\ Settle(i, TRUE)

\* fetch.once('error') of fetch i
FetchErrorConcurrent(i) == FetchingConcurrent(i) /\ Settle(i, FALSE)

\* fetch.once('end') of fetch i: reject if no message or no byte was received
FetchEndConcurrent(i) ==
    /\ FetchingConcurrent(i)
    /\ ~fetches[i].received \/ fetches[i].len = 0
    /\ Settle(i, FALSE)

\* Promise.all over simpleParser settles, the parse of the buffers at the
\* positions in bad having thrown: if any threw, the rejection reaches the catch
\* block; otherwise reverse, close, answer 200
ParseConcurrent(bad) ==
    /\ pc = "parse"
    /\ unparsed' = {emailBuffers[i] : i \in bad}
    /\ IF bad # {}
       THEN Catch(MsgParseError, imap)
       ELSE /\ calls' = EndIfOpen(imap, calls)
            /\ response' = Success(Reverse(emailBuffers))
            /\ pc' = "done"
    /\ UNCHANGED << envVars, others, now, imap, setupVars, results, loopVars, settled,
                    fetchVars >>

\* the clock matters to this revision only while the connection timer is armed
TickConnecting == pc = "connecting" /\ Tick

InitConcurrent ==
    /\ envUser \in CredentialInputs
    /\ envPassword \in CredentialInputs
    /\ envEmailCount \in EmailCountInputs
    /\ envNodeEnv \in NodeEnvInputs
    /\ mailbox \in {Mailbox(m) : m \in 0..MaxConcurrent}
    /\ InitHandler
    /\ InitElsewhere

NextConcurrent ==
    \/ StartConcurrent
    \/ Ready
    \/ ConnectError
    \/ ConnectTimeout
    \/ OpenBoxOk
    \/ OpenBoxError
    \/ SearchOkConcurrent
    \/ SearchError
    \/ \E i \in 1..MaxConcurrent + 1 : DataConcurrent(i, 1)
    \/ \E i \in 1..MaxConcurrent + 1 : MessageEndConcurrent(i)
    \/ \E i \in 1..MaxConcurrent + 1 : FetchErrorConcurrent(i)
    \/ \E i \in 1..MaxConcurrent + 1 : FetchEndConcurrent(i)
    \/ \E bad \in SUBSET (1..Len(emailBuffers)) : ParseConcurrent(bad)
    \/ TickConnecting

SpecConcurrent == InitConcurrent /\ [][NextConcurrent]_vars

----------------------------------------------------------------------------
(* The client (src/api.ts): fetchEmails, one step per await.  A content type   *)
(* is the sequence of the parts of the header value ('' when the header is     *)
(* absent); a body is named by what text() and JSON.parse make of it.          *)

MsgNotAvailable == "Netlify Functions are not available"
MsgFunctionTimeout == "Function timeout or server error"
MsgNetworkError == "Network error: Unable to connect to the server"
MsgInvalidResponse == "Invalid response from server"
MsgOfBody == "errorData.message"
MsgGeneric == "Server error: status statusText"
MsgHttpError == "HTTP error! status"
RawTypeError == "TypeError"
RawSyntaxError == "SyntaxError"
Returned == "returned"

Statuses == {200, 404, 500, 502}
ContentTypes == { << >>, << "application/json" >>, << "text/html" >>,
                  << "text/html", "; charset=utf-8" >>, << "text/plain" >> }
\* envelope: the handler's 200 body; error: an object with a non-empty message;
\* object: JSON without a message; null: the JSON value null; text: not JSON;
\* unreadable: the body stream fails
Bodies == {"envelope", "error", "object", "null", "text", "unreadable"}

\* contentType.includes('text/html') by equality with the whole header value
IncludesOnlyExact(contentType, part) == contentType = << part >>

\* String.prototype.includes over the parts of the header value
Includes(contentType, part) == \E i \in 1..Len(contentType) : contentType[i] = part

\* response.ok
Ok(status) == status >= 200 /\ status <= 299

\* the catch block of fetchEmails: what the caller sees for an error thrown
\* inside the try
Rethrow(error, mentionsFetch, mentionsJSON) ==
    IF error = RawTypeError /\ mentionsFetch THEN MsgNetworkError
    ELSE IF error = RawSyntaxError /\ mentionsJSON THEN MsgInvalidResponse
    ELSE error

\* errorData after the inner try/catch around text() and JSON.parse
ErrorData(body) ==
    IF body \in {"text", "unreadable"} THEN "generic" ELSE body

\* errorData.message || `HTTP error! status: ...`
ErrorMessage(errorData) ==
    IF errorData = "generic" THEN MsgGeneric
    ELSE IF errorData = "error" THEN MsgOfBody
    ELSE MsgHttpError

\* the error thrown for a response that is not ok, once the body was read
NotOkOutcome(status, body) ==
    IF ErrorData(body) = "null" THEN Rethrow(RawTypeError, FALSE, FALSE)
    ELSE IF status = 502 THEN Rethrow(MsgFunctionTimeout, FALSE, FALSE)
    ELSE Rethrow(ErrorMessage(ErrorData(body)), FALSE, FALSE)

handlerVars == << envVars, pc, now, imap, setupVars, calls, results, loopVars, settled,
                  fetchVars, response, unparsed, fetches, promise, seen, previous >>

\* fetchEmails is called: fetch('/.netlify/functions/getLatestEmail')
CallFetchEmails ==
    /\ client.pc \in {"idle", "done"}
    /\ client.started < MaxInvocations
    /\ client' = [pc |-> "awaitFetch", started |-> client.started + 1,
                  gets |-> client.gets + 1, reads |-> 0, outcome |-> "none"]
    /\ http' = NoHttp
    /\ UNCHANGED handlerVars

\* fetch rejects with a TypeError whose message may or may not contain 'fetch'
FetchRejects(mentionsFetch) ==
    /\ client.pc = "awaitFetch"
    /\ client' = [client EXCEPT !.pc = "done",
                                !.outcome = Rethrow(RawTypeError, mentionsFetch, FALSE)]
    /\ UNCHANGED << handlerVars, http >>

\* fetch resolves with a response: the content type check, then response.ok
FetchResolves(status, contentType, body) ==
    /\ client.pc = "awaitFetch"
    /\ http' = [status |-> status, contentType |-> contentType, body |-> body]
    /\ IF Includes(contentType, "text/html")
       THEN client' = [client EXCEPT !.pc = "done",
                                     !.outcome = Rethrow(MsgNotAvailable, FALSE, FALSE)]
       ELSE IF ~Ok(status)
       THEN client' = [client EXCEPT !.pc = "awaitText"]
       ELSE client' = [client EXCEPT !.pc = "awaitJson"]
    /\ UNCHANGED handlerVars

\* await response.text() settles; JSON.parse; the status branches
TextSettles ==
    /\ client.pc = "awaitText"
    /\ client' = [client EXCEPT !.pc = "done", !.reads = @ + 1,
                                !.outcome = NotOkOutcome(http.status, http.body)]
    /\ UNCHANGED << handlerVars, http >>

\* the promise of response.json(), returned without await, settles: its
\* rejection does not pass through the catch block
JsonSettles ==
    /\ client.pc = "awaitJson"
    /\ client' = [client EXCEPT !.pc = "done", !.reads = @ + 1,
                                !.outcome = IF http.body = "text" THEN RawSyntaxError
                                            ELSE IF http.body = "unreadable" THEN RawTypeError
                                            ELSE Returned]
    /\ UNCHANGED << handlerVars, http >>

InitClient ==
    /\ envUser = TextString
    /\ envPassword = TextString
    /\ envEmailCount = UnsetValue
    /\ envNodeEnv = "undefined"
    /\ mailbox = Mailbox(0)
    /\ InitHandler
    /\ InitElsewhere

NextClient ==
    \/ CallFetchEmails
    \/ \E mentionsFetch \in BOOLEAN : FetchRejects(mentionsFetch)
    \/ \E status \in Statuses, contentType \in ContentTypes, body \in Bodies :
           FetchResolves(status, contentType, body)
    \/ TextSettles
    \/ JsonSettles

SpecClient == InitClient /\ [][NextClient]_vars

----------------------------------------------------------------------------
(* Repeated invocations of the handler: every invocation starts from fresh     *)
(* locals (imap = null, startTime = Date.now()); the environment and the       *)
(* mailbox stay as they are.  `previous` remembers the invocation before.       *)

\* the invocation fetched and parsed every message it selected
Nominal ==
    /\ pc = "done"
    /\ response.status = 200
    /\ results.done
    /\ Len(response.emails) = Len(uidsToFetch)

Remember ==
    previous' = [present |-> TRUE, n |-> previous.n + 1, response |-> response,
                 nominal |-> Nominal, elapsed |-> now]

\* the locals of a new invocation
FreshLocals ==
    /\ pc' = "start"
    /\ now' = 0
    /\ imap' = "null"
    /\ imapCreated' = 0
    /\ connectionTimeout' = Off
    /\ calls' = << >>
    /\ maxEmails' = Num(0)
    /\ results' = NoResults
    /\ uidsToFetch' = << >>
    /\ remainingUids' = << >>
    /\ emailBuffers' = << >>
    /\ fetchUid' = NoUid
    /\ fetchTimeout' = Off
    /\ emailBuffer' = 0
    /\ messageReceived' = FALSE
    /\ chunks' = 0
    /\ returned' = FALSE
    /\ settled' = << >>
    /\ response' = NoResponse
    /\ unparsed' = {}

\* a message is delivered between the two invocations
ReinvokeAfterDelivery ==
    /\ pc = "done"
    /\ previous.n + 1 < MaxInvocations
    /\ Remember
    /\ FreshLocals
    /\ mailbox' = Mailbox(Len(mailbox) + 1)
    /\ UNCHANGED << envUser, envPassword, envEmailCount, envNodeEnv, fetches, promise, seen,
                    http, client >>

\* the handler is invoked again after it has responded
Reinvoke ==
    /\ pc = "done"
    /\ previous.n + 1 < MaxInvocations
    /\ Remember
    /\ FreshLocals
    /\ UNCHANGED << envVars, fetches, promise, seen, http, client >>

InitRepeat ==
    /\ envUser = TextString
    /\ envPassword = TextString
    /\ envEmailCount \in {UnsetValue, IntString(MaxCountInput)}
    /\ envNodeEnv \in NodeEnvInputs
    /\ mailbox \in {Mailbox(m) : m \in 0..MaxRepeatMailbox}
    /\ InitHandler
    /\ InitElsewhere

NextRepeat ==
    \/ Next
    \/ Reinvoke

SpecRepeat == InitRepeat /\ [][NextRepeat]_vars

----------------------------------------------------------------------------
(* fetchEmail alone: one call, its promise made explicit, and the events of    *)
(* the fetch delivered in any order, also after the promise has settled.       *)
(* `seen` holds the once-events already delivered, and the LateData mark.       *)

ReasonError == "err"
ReasonTimeout == "Timeout fetching email"
ReasonTooLarge == "Email too large (max 10MB)"
ReasonNoData == "No email data received"

\* a promise whose resolve and reject would overwrite an earlier settlement
SettleOverwrites(p, state, value, reason) ==
    [state |-> state, value |-> value, reason |-> reason]

\* resolve(value) or reject(reason) of a promise: only a pending promise settles
SettleOnce(p, state, value, reason) ==
    IF p.state = "pending"
    THEN [state |-> state, value |-> value, reason |-> reason]
    ELSE p

fetchEmailFrame == << envVars, pc, imap, setupVars, results, loopVars, settled, response,
                      unparsed,
                      fetches, previous, http, client >>

\* fetchEmail(imap, uid): new Promise, arm the timer, issue the FETCH command
CallFetchEmail(uid) ==
    /\ promise.state = "none"
    /\ promise' = [state |-> "pending", value |-> 0, reason |-> ""]
    /\ fetchTimeout' = now + FetchTimeoutMs
    /\ calls' = Append(calls, Fetch(uid))
    /\ fetchUid' = uid
    /\ emailBuffer' = 0
    /\ messageReceived' = FALSE
    /\ UNCHANGED << fetchEmailFrame, now, chunks, seen >>

Called == promise.state # "none"

\* history mark: bytes were appended to emailBuffer after the promise settled
LateData == "late data"

\* the chunk sizes of the whole model, and one chunk that alone exceeds the cap
FetchEmailChunks == ChunkSizes \cup {MaxEmailBytes + 1}

\* stream.on('data'): the chunk is appended whatever the state of the promise
OnData(size) ==
    /\ Called
    /\ chunks < MaxChunks
    /\ emailBuffer' = emailBuffer + size
    /\ chunks' = chunks + 1
    /\ IF emailBuffer' > MaxEmailBytes
       THEN /\ fetchTimeout' = Off
            /\ promise' = SettleOnce(promise, "rejected", 0, ReasonTooLarge)
       ELSE UNCHANGED << fetchTimeout, promise >>
    /\ seen' = IF promise.state = "pending" THEN seen ELSE seen \cup {LateData}
    /\ UNCHANGED << fetchEmailFrame, now, calls, fetchUid, messageReceived >>

\* msg.once('end')
OnMessageEnd ==
    /\ Called
    /\ "msgEnd" \notin seen
    /\ seen' = seen \cup {"msgEnd"}
    /\ fetchTimeout' = Off
    /\ messageReceived' = TRUE
    /\ promise' = SettleOnce(promise, "resolved", emailBuffer, "")
    /\ UNCHANGED << fetchEmailFrame, now, calls, fetchUid, emailBuffer, chunks >>

\* fetch.once('error')
OnFetchError ==
    /\ Called
    /\ "error" \notin seen
    /\ seen' = seen \cup {"error"}
    /\ fetchTimeout' = Off
    /\ promise' = SettleOnce(promise, "rejected", 0, ReasonError)
    /\ UNCHANGED << fetchEmailFrame, now, calls, fetchUid, emailBuffer, chunks,
                    messageReceived >>

\* fetch.once('end')
OnFetchEnd ==
    /\ Called
    /\ "end" \notin seen
    /\ seen' = seen \cup {"end"}
    /\ fetchTimeout' = Off
    /\ IF ~messageReceived \/ emailBuffer = 0
       THEN promise' = SettleOnce(promise, "rejected", 0, ReasonNoData)
       ELSE UNCHANGED promise
    /\ UNCHANGED << fetchEmailFrame, now, calls, fetchUid, emailBuffer, chunks,
                    messageReceived >>

\* the callback of setTimeout(..., 5000)
OnFetchTimeout ==
    /\ Called
    /\ fetchTimeout # Off
    /\ now >= fetchTimeout
    /\ fetchTimeout' = Off
    /\ promise' = SettleOnce(promise, "rejected", 0, ReasonTimeout)
    /\ UNCHANGED << fetchEmailFrame, now, calls, fetchUid, emailBuffer, chunks,
                    messageReceived, seen >>

\* time passes, but not past a due timer
TickFetchEmail ==
    /\ Called
    /\ ~(fetchTimeout # Off /\ now >= fetchTimeout)
    /\ now + TickMs <= MaxNow
    /\ now' = now + TickMs
    /\ UNCHANGED << fetchEmailFrame, calls, fetchVars, promise, seen >>

InitFetchEmail ==
    /\ envUser = TextString
    /\ envPassword = TextString
    /\ envEmailCount = UnsetValue
    /\ envNodeEnv = "undefined"
    /\ mailbox = Mailbox(MaxRepeatMailbox)
    /\ pc = "fetchEmail"
    /\ now = 0
    /\ imap = "set"
    /\ imapCreated = 1
    /\ connectionTimeout = Off
    /\ calls = << >>
    /\ maxEmails = Num(EmailCap)
    /\ results = Results(mailbox)
    /\ uidsToFetch = << >>
    /\ remainingUids = << >>
    /\ emailBuffers = << >>
    /\ fetchUid = NoUid
    /\ fetchTimeout = Off
    /\ emailBuffer = 0
    /\ messageReceived = FALSE
    /\ chunks = 0
    /\ returned = FALSE
    /\ settled = << >>
    /\ response = NoResponse
    /\ unparsed = {}
    /\ InitElsewhere

NextFetchEmail ==
    \/ \E uid \in Range(mailbox) : CallFetchEmail(uid)
    \/ \E size \in FetchEmailChunks : OnData(size)
    \/ OnMessageEnd
    \/ OnFetchError
    \/ OnFetchEnd
    \/ OnFetchTimeout
    \/ TickFetchEmail

SpecFetchEmail == InitFetchEmail /\ [][NextFetchEmail]_vars

----------------------------------------------------------------------------
(* Properties, continued *)

\* C11: when connecting, opening the inbox or the search fails, the handler
\* answers 500 with a message and no fetch was issued.
C11_SessionErrorsAre500 ==
    (Responded /\ Connect \in Range(calls) /\ ~SearchAnswered) =>
        /\ response.status = 500
        /\ "message" \in response.fields /\ response.message # ""
        /\ FetchCalls = {}

C11_Witness ==
    /\ Responded /\ ~SearchAnswered
    /\ Search \in Range(calls)

\* C13: with a non-empty mailbox, a response without any parsed email is a 500.
C13_NoParsedEmailIsError ==
    (Responded /\ SearchAnswered /\ Len(results.uids) > 0
       /\ Len(response.emails) = 0) =>
        response.status = 500

\* C14 as stated: every 500 carries a message, and carries the raw error if and
\* only if NODE_ENV is 'development'.
C14_DetailIffDevelopment ==
    (Responded /\ response.status = 500) =>
        /\ "message" \in response.fields
        /\ "error" \in response.fields <=> envNodeEnv = "development"

\* C14 as amended: every 500 carries a message; it carries the raw error only
\* if NODE_ENV is 'development', and in development every 500 of the catch
\* block (any 500 given before fetchMultipleEmails has returned) carries it.
C14_DetailOnlyInDevelopment ==
    (Responded /\ response.status = 500) =>
        /\ "message" \in response.fields
        /\ "error" \in response.fields => envNodeEnv = "development"
        /\ (envNodeEnv = "development" /\ ~returned) => "error" \in response.fields

C14_Witness ==
    /\ Responded /\ response.status = 500
    /\ envNodeEnv = "development" /\ "error" \in response.fields

\* C18: whenever at least one identifier is targeted, the newest one is fetched
\* first, however much time has elapsed.
C18_NewestAlwaysAttempted ==
    (SearchAnswered /\ Len(uidsToFetch) > 0) =>
        \E i \in 1..Len(calls) :
            /\ calls[i] = Fetch(uidsToFetch[Len(uidsToFetch)])
            /\ \A j \in 1..(i - 1) : calls[j].op # "fetch"

\* the uids of the fetch commands, in the order they were issued
RECURSIVE FetchSeq(_)
FetchSeq(log) ==
    IF log = << >> THEN << >>
    ELSE IF Head(log).op = "fetch" THEN << Head(log).uid >> \o FetchSeq(Tail(log))
    ELSE FetchSeq(Tail(log))

IsPrefix(a, b) == Len(a) <= Len(b) /\ a = SubSeq(b, 1, Len(a))

IssuesFetch == Len(calls') > Len(calls) /\ calls'[Len(calls')].op = "fetch"

\* C19: the identifiers are attempted newest to oldest, one at a time; no fetch
\* is started while the elapsed time exceeds maxTime; what was collected so far is
\* what fetchMultipleEmails returns.
C19_BudgetedNewestToOldest ==
    /\ [](/\ IsPrefix(FetchSeq(calls), Reverse(uidsToFetch))
          /\ Len(FetchSeq(calls)) <= Len(settled) + 1
          /\ returned => emailBuffers = ResolvedSeq(settled))
    /\ [][IssuesFetch => now <= MaxTime]_vars

C19_Witness ==
    /\ returned /\ now > MaxTime
    /\ Len(settled) >= 2 /\ Len(settled) < Len(uidsToFetch)
    /\ \A i \in 1..Len(settled) : settled[i].ok

\* the subsequence of uids whose fetch resolved, in the order of uids
RECURSIVE Successful(_, _)
Successful(uids, hist) ==
    IF uids = << >> THEN << >>
    ELSE IF \E k \in 1..Len(hist) : hist[k].uid = Head(uids) /\ hist[k].ok
         THEN << Head(uids) >> \o Successful(Tail(uids), hist)
         ELSE Successful(Tail(uids), hist)

\* C12: in the concurrent revision, whatever the order in which the fetches
\* complete or fail, every selected uid is fetched exactly once (none retried),
\* fetchMultipleEmails returns exactly the buffers of the fetches that resolved,
\* in request (ascending uid) order, and a response that lists messages lists
\* exactly those, strictly newest first.
C12_RequestOrderRestored ==
    /\ FetchSeq(calls) \in {<< >>, uidsToFetch}
    /\ Len(settled) <= Len(uidsToFetch)
    /\ \A j, k \in 1..Len(settled) : settled[j].uid = settled[k].uid => j = k
    /\ returned =>
        /\ Len(settled) = Len(uidsToFetch)
        /\ emailBuffers = Successful(uidsToFetch, settled)
        /\ \A i \in 1..(Len(emailBuffers) - 1) : emailBuffers[i] < emailBuffers[i + 1]
    /\ (Responded /\ response.status = 200 /\ returned) =>
        /\ response.emails = Reverse(Successful(uidsToFetch, settled))
        /\ \A i \in 1..(Len(response.emails) - 1) :
               response.emails[i] > response.emails[i + 1]

\* C12 witness: two fetches resolved, the newer one first, and the response
\* lists both
C12_Witness ==
    /\ Responded /\ response.status = 200 /\ returned
    /\ Len(settled) = 2 /\ settled[1].ok /\ settled[2].ok
    /\ settled[1].uid > settled[2].uid
    /\ Len(response.emails) = 2

HtmlTypes == { << "text/html" >>, << "text/html", "; charset=utf-8" >> }

ClientDone == client.pc = "done"

\* C15: for every 502 response, whatever its content type or body, fetchEmails
\* throws the 'Function timeout or server error' error.
C15_Every502IsTimeout ==
    (ClientDone /\ http.status = 502) => client.outcome = MsgFunctionTimeout

\* C16: a response whose content type contains text/html, whatever its status,
\* makes fetchEmails throw 'Netlify Functions are not available' with the body
\* neither read nor parsed; each call issues exactly one GET; a value is returned
\* only for an ok response that is not HTML.
C16_HtmlMeansUnavailable ==
    /\ client.gets = client.started
    /\ client.reads <= 1
    /\ (ClientDone /\ http.contentType \in HtmlTypes) =>
           client.outcome = MsgNotAvailable /\ client.reads = 0
    /\ (ClientDone /\ client.outcome = Returned) =>
           Ok(http.status) /\ http.contentType \notin HtmlTypes /\ client.reads = 1

\* C16 witness: the second call got a 500 whose content type is text/html with a
\* charset, and threw without touching the body
C16_Witness ==
    /\ ClientDone /\ client.started = 2 /\ client.gets = 2
    /\ http.status = 500 /\ http.contentType = << "text/html", "; charset=utf-8" >>
    /\ client.outcome = MsgNotAvailable /\ client.reads = 0

PromiseSettled == promise.state \in {"resolved", "rejected"}

Delivered(event) == event \in seen' /\ event \notin seen

\* the step settles the pending promise of fetchEmail
Settles == promise.state = "pending" /\ promise'.state # "pending"

\* C20 (states): the call issued one FETCH and nothing else; a pending promise
\* has its 5 s timer armed and not overdue; a settled promise is either resolved
\* with bytes within the cap or rejected for one of the four reasons; the
\* session and the response of the invocation are untouched.
C20_Outcome ==
    /\ Called => calls = << Fetch(fetchUid) >>
    /\ imap = "set" /\ response = NoResponse
    /\ promise.state = "pending" =>
           /\ fetchTimeout = FetchTimeoutMs /\ now < fetchTimeout + TickMs
           /\ seen = {} /\ emailBuffer <= MaxEmailBytes
    /\ promise.state = "resolved" => promise.value <= MaxEmailBytes /\ "msgEnd" \in seen
    /\ promise.state = "rejected" =>
           promise.reason \in {ReasonError, ReasonTimeout, ReasonTooLarge, ReasonNoData}

\* C20 (steps): a settled promise never changes; a pending one settles exactly
\* when the fetch emits an error (rejected), the timer fires (rejected), the
\* bytes exceed 10 MB (rejected), the fetch ends with no message received
\* (rejected) or the message ends (resolved with the bytes accumulated).
C20_SettlesOnce ==
    /\ PromiseSettled => promise' = promise
    /\ promise.state = "pending" =>
        /\ Delivered("error") => promise'.state = "rejected" /\ promise'.reason = ReasonError
        /\ Delivered("end") => promise'.state = "rejected" /\ promise'.reason = ReasonNoData
        /\ Delivered("msgEnd") => promise'.state = "resolved" /\ promise'.value = emailBuffer
        /\ emailBuffer' > MaxEmailBytes =>
               promise'.state = "rejected" /\ promise'.reason = ReasonTooLarge
        /\ (promise'.state = "rejected" /\ promise'.reason = ReasonTimeout) =>
               now >= FetchTimeoutMs /\ seen' = seen /\ emailBuffer' = emailBuffer
        /\ Settles =>
               \/ Delivered("error") \/ Delivered("end") \/ Delivered("msgEnd")
               \/ emailBuffer' > MaxEmailBytes
               \/ promise'.reason = ReasonTimeout

\* C20: fetchEmail settles once, for the stated reasons, and a rejection is
\* only the result of that fetch.
C20_FetchEmailSettlesOnce == []C20_Outcome /\ [][C20_SettlesOnce]_vars

\* C20 witness: the promise was rejected by the timer at 5 s, and the message
\* 'end' and more bytes arrived afterwards
C20_Witness ==
    /\ promise.state = "rejected" /\ promise.reason = ReasonTimeout
    /\ "msgEnd" \in seen /\ messageReceived /\ emailBuffer > 0

ConnectTimeouts == {MsgConnectionTimeout, MsgConnTimedOut, MsgAuthTimedOut}

\* C21: when connecting ended in a timeout (the 8 s timer, or a connection or
\* authentication timeout of the Imap object surfaced as 'error'), imap.end() was
\* called on the connection; and once 'ready' or 'error' has been handled the
\* 8 s timer is cleared, so it cannot fire afterwards.
C21_TimeoutClosesConnection ==
    /\ (Responded /\ Connect \in Range(calls) /\ response.message \in ConnectTimeouts) =>
           End \in Range(calls)
    /\ (Connect \in Range(calls) /\ pc # "connecting") => connectionTimeout = Off

\* C22: the internal budgets guarantee that the response is produced before
\* the platform's outer deadline of 10 s; stated for the executions in which the
\* retrieval budget let a fetch start (so that connecting, opening and searching
\* took at most 8 s together).
C22_RespondsBeforeDeadline ==
    (Responded /\ Len(settled) >= 1) => now < OuterDeadlineMs

\* the buffers of bufs that are not in dropped, in the order of bufs
RECURSIVE Kept(_, _)
Kept(bufs, dropped) ==
    IF bufs = << >> THEN << >>
    ELSE IF Head(bufs) \in dropped THEN Kept(Tail(bufs), dropped)
    ELSE << Head(bufs) >> \o Kept(Tail(bufs), dropped)

Parsed == Responded /\ returned /\ emailBuffers # << >>

\* C23: once the handler has parsed the fetched buffers, whichever parses threw,
\* it answers 200 with exactly the buffers whose parse did not throw, in the
\* (reversed) order of the fetched buffers, and the session was closed normally.
C23_ParseFailureDropsOne ==
    Parsed =>
        /\ response.status = 200
        /\ response.fields = {"emails", "count"}
        /\ response.emails = Reverse(Kept(emailBuffers, unparsed))
        /\ response.count = Len(emailBuffers) - Cardinality(unparsed)

\* C23 witness: of three or more fetched buffers one failed to parse and the
\* response lists the others
C23_Witness ==
    /\ Parsed /\ Cardinality(unparsed) = 1
    /\ Len(emailBuffers) >= 3
    /\ Len(response.emails) = Len(emailBuffers) - 1
    /\ emailBuffers[2] \in unparsed

\* connect, openInbox and search succeeded and there was something to fetch
SessionSucceeded == Responded /\ results.done /\ Len(uidsToFetch) > 0

\* C24: in the concurrent revision, when connect, openInbox and search
\* succeeded, a failed fetch or a failed parse of a targeted message never makes
\* the handler answer 500: it answers 200 with the messages that were fetched
\* and parsed.
C24_MessageErrorsNeverEscalate ==
    SessionSucceeded =>
        /\ response.status = 200
        /\ response.emails = Reverse(Kept(Successful(uidsToFetch, settled), unparsed))

\* C25: in the concurrent revision, when the mailbox is not empty and every
\* fetch issued has failed, the handler answers 500.
C25_AllFetchesFailedIsError ==
    (SessionSucceeded /\ \A i \in 1..Len(settled) : ~settled[i].ok) =>
        response.status = 500

\* the stage of the session a command belongs to
Stage(op) ==
    IF op = "connect" THEN 1
    ELSE IF op = "openBox" THEN 2
    ELSE IF op = "search" THEN 3
    ELSE IF op = "fetch" THEN 4
    ELSE 5

Count(op) == Cardinality({i \in 1..Len(calls) : calls[i].op = op})

\* C26: at most one Imap object is created per invocation; the commands issued
\* on it are connect, then (once 'ready' was handled) openBox, then search,
\* then fetches, then end, each of connect, openBox, search and end at most
\* once; nothing is issued after end.
C26_SessionLifecycle ==
    /\ imapCreated <= 1 /\ Count("connect") = imapCreated
    /\ Count("openBox") <= 1 /\ Count("search") <= 1 /\ Count("end") <= 1
    /\ \A i, j \in 1..Len(calls) : i < j => Stage(calls[i].op) <= Stage(calls[j].op)
    /\ \A i \in 1..Len(calls) : calls[i].op = "end" => i = Len(calls)
    /\ \A i \in 1..Len(calls) :
           calls[i].op \in {"openBox", "search", "fetch"} => imap = "set"
    /\ Count("search") = 1 => Count("openBox") = 1
    /\ Count("fetch") > 0 => Count("search") = 1 /\ results.done
    /\ Len(calls) > 0 => calls[1] = Connect

\* C26 witness: a session that went through every stage, with two fetches, and
\* was closed
C26_Witness ==
    /\ Responded /\ Len(calls) >= 6
    /\ calls[2] = OpenBox /\ calls[3] = Search
    /\ calls[4].op = "fetch" /\ calls[5].op = "fetch"
    /\ calls[Len(calls)] = End

\* the promise settled while its FETCH command had not completed on the
\* connection: the timer or the size cap rejected it
Abandoned(k) == settled[k].by \in {ByTimeout, BySizeCap}

\* C27: at most one fetch command is outstanding: when the promise of the k-th
\* fetch was rejected by its timer or by the size cap, no further fetch command
\* and no imap.end() is issued behind the command still in flight.
C27_OneFetchInFlight ==
    \A k \in 1..Len(settled) :
        Abandoned(k) => Len(FetchSeq(calls)) = k /\ End \notin Range(calls)

\* C28: once fetchEmail has rejected because the buffer exceeded 10 MB, or
\* because its timer fired, no further chunk is appended to the buffer, so the
\* buffer holds at most 10 MB plus the chunk that crossed the cap.
C28_AccumulationStops ==
    (promise.state = "rejected" /\ promise.reason \in {ReasonTooLarge, ReasonTimeout}) =>
        LateData \notin seen

====
